---- MODULE Spec2Model ----
(***************************************************************************)
(* Model of MbedLsToolsDarwin (mbed_lstools/lstools_darwin.py): detection  *)
(* of mbed boards on Mac OS X by correlating the ioreg registry tree, the  *)
(* system_profiler USB topology and the diskutil partition table.          *)
(*                                                                         *)
(* Encoding of Python values.  Every scalar (string) is a sequence of      *)
(* tokens: a name is its sequence of words, an identifier its sequence of  *)
(* characters, so that regex word boundaries and the [:4] slice are        *)
(* computed and not assumed.  None is the one-token value <<"None">>; a    *)
(* key missing from a dict is the field value Absent.  A value that may be *)
(* a dict, a list or None is tagged: [tag, val] with val a sequence (one   *)
(* dict, or the list's elements).                                          *)
(***************************************************************************)
EXTENDS Integers, Sequences, FiniteSets, TLC

None == <<"None">>
Absent == <<"Absent">>

\* the key None, which `None in result[i]` looks up among a dict's keys
NoneKey == "None"

DictV(n) == [tag |-> "dict", val |-> <<n>>]
ListV(s) == [tag |-> "list", val |-> s]
NoneV == [tag |-> "none", val |-> <<>>]
AbsentV == [tag |-> "absent", val |-> <<>>]

Min(a, b) == IF a < b THEN a ELSE b

\* s[:n]
Slice(s, n) == SubSeq(s, 1, Min(n, Len(s)))

RECURSIVE Flatten(_)
Flatten(ss) == IF ss = <<>> THEN <<>> ELSE Head(ss) \o Flatten(Tail(ss))

Range(s) == {s[i] : i \in 1..Len(s)}

(***************************************************************************)
(* mbed_volume_name_match = re.compile(r'(\bmbed\b|\bSEGGER MSD\b)', re.I) *)
(* over a string given as its sequence of words.                           *)
(***************************************************************************)
Lower(w) ==
    CASE w \in {"mbed", "MBED", "Mbed"} -> "mbed"
      [] w \in {"SEGGER", "segger"} -> "segger"
      [] w \in {"MSD", "msd"} -> "msd"
      [] OTHER -> w

mbed_volume_name_match(s) ==
    \/ \E i \in 1..Len(s) : Lower(s[i]) = "mbed"
    \/ \E i \in 1..(Len(s) - 1) : Lower(s[i]) = "segger" /\ Lower(s[i + 1]) = "msd"

(***************************************************************************)
(* Tree navigation helpers of get_mbed_volumes.  A registry dict is a      *)
(* record [name, vendor, vendorName, sessionID, bcdDevice, idVendor,       *)
(* idProduct, serial, tty, children]; children is AbsentV, DictV or ListV. *)
(***************************************************************************)
HasKeyChildren(v) ==
    \* 'IORegistryEntryChildren' in obj: a key of a dict; never an element
    \* of a list of dicts
    v.tag = "dict" /\ v.val[1].children.tag # "absent"

has_children(v) == v.tag # "none" /\ HasKeyChildren(v)

get_children(v) == IF has_children(v) THEN v.val[1].children ELSE NoneV

is_mbed_root(v) ==
    v.tag = "dict" /\ v.val[1].sessionID /\ v.val[1].bcdDevice

\* the while loop of filter_io_reg, entered with c = i
RECURSIVE DescendToRoot(_)
DescendToRoot(c) ==
    IF has_children(c)
    THEN LET d == get_children(c)
         IN IF is_mbed_root(d) THEN <<d.val[1]>> ELSE DescendToRoot(d)
    ELSE <<>>

\* filter_io_reg(obj) for obj a list of dicts
RECURSIVE filter_io_reg(_)
filter_io_reg(obj) ==
    IF obj = <<>> THEN <<>>
    ELSE LET i == Head(obj)
         IN (IF i.name # Absent /\ i.name = <<"Root">>
             THEN DescendToRoot(DictV(i)) ELSE <<>>)
            \o filter_io_reg(Tail(obj))

(***************************************************************************)
(* USB topology.  A system_profiler dict is a record [name, manufacturer,  *)
(* serial_num, bsd_name, items]; items is AbsentV or ListV.                *)
(***************************************************************************)
SearchTerm(i) ==
    IF i.manufacturer # Absent THEN i.name \o i.manufacturer ELSE i.name

\* the body of `for i in o['_items']` inside the try block: a KeyError on
\* i['_name'] leaves the loop through `except: continue`
RECURSIVE ScanItems(_)
ScanItems(items) ==
    IF items = <<>> THEN <<>>
    ELSE LET i == Head(items)
             sub == IF i.items.tag = "list" THEN ScanItems(i.items.val) ELSE <<>>
         IN IF i.name = Absent
            THEN sub
            ELSE sub
                 \o (IF mbed_volume_name_match(SearchTerm(i)) /\ i.bsd_name # Absent
                     THEN <<i>> ELSE <<>>)
                 \o ScanItems(Tail(items))

\* filter_system_profiler(obj) for obj a list of dicts
RECURSIVE filter_system_profiler(_)
filter_system_profiler(obj) ==
    IF obj = <<>> THEN <<>>
    ELSE (IF Head(obj).items.tag = "list" THEN ScanItems(Head(obj).items.val) ELSE <<>>)
         \o filter_system_profiler(Tail(obj))

\* get_disk_id(obj, sn); obj None raises inside the try and returns None
RECURSIVE FirstDisk(_, _)
FirstDisk(devs, sn) ==
    IF devs = <<>> THEN None
    ELSE LET dev == Head(devs)
         IN IF dev.serial_num # Absent /\ dev.bsd_name # Absent /\ dev.serial_num = sn
            THEN dev.bsd_name
            ELSE FirstDisk(Tail(devs), sn)

get_disk_id(obj, sn) == IF obj.tag = "list" THEN FirstDisk(obj.val, sn) ELSE None

(***************************************************************************)
(* Device correlation: set_mbed_devs and find_tty.                         *)
(***************************************************************************)
RECURSIVE find_tty(_)
find_tty(v) ==
    IF v.tag = "dict" /\ v.val[1].tty # Absent THEN v.val[1].tty
    ELSE IF has_children(v) THEN find_tty(get_children(v))
    ELSE None

\* the keys of obj whose value fires the elif of set_mbed_devs
MatchingKeys(obj) ==
    (IF obj.name # Absent /\ mbed_volume_name_match(obj.name)
        THEN <<"IORegistryEntryName">> ELSE <<>>)
    \o (IF obj.vendor # Absent /\ mbed_volume_name_match(obj.vendor)
        THEN <<"kUSBVendorString">> ELSE <<>>)
    \o (IF obj.vendorName # Absent /\ mbed_volume_name_match(obj.vendorName)
        THEN <<"USB Vendor Name">> ELSE <<>>)

\* usb_info as built for a matching key of obj
UsbInfo(obj) ==
    [serial |-> IF obj.serial # Absent THEN obj.serial ELSE None,
     vendor_id |-> IF obj.idVendor # Absent THEN obj.idVendor ELSE None,
     product_id |-> IF obj.idProduct # Absent THEN obj.idProduct ELSE None,
     tty |-> IF obj.serial # Absent THEN find_tty(DictV(obj)) ELSE None]

\* SelfWrites with `r[disk_id] = usb_info` moved out of the serial-number test
SelfWritesAlways(obj, mbed_drives, depth) ==
    <<[key |-> get_disk_id(mbed_drives, IF obj.serial # Absent THEN obj.serial ELSE None),
       info |-> UsbInfo(obj), depth |-> depth]>>

\* the assignments r[disk_id] = usb_info made by one matching key of obj:
\* one, under `if 'USB Serial Number' in obj`, and none without the field
SelfWrites(obj, mbed_drives, depth) ==
    IF obj.serial # Absent
    THEN <<[key |-> get_disk_id(mbed_drives, obj.serial),
            info |-> UsbInfo(obj), depth |-> depth]>>
    ELSE <<>>

\* set_mbed_devs(obj): the assignments to r in the order they are made.
\* dict.items() has no order of its own: childrenFirst says whether the
\* dict-valued child entry comes before or after the name keys.
RECURSIVE set_mbed_devs(_, _, _, _)
set_mbed_devs(obj, mbed_drives, childrenFirst, depth) ==
    LET sub == IF obj.children.tag = "dict"
               THEN set_mbed_devs(obj.children.val[1], mbed_drives, childrenFirst, depth + 1)
               ELSE <<>>
        own == Flatten([k \in 1..Len(MatchingKeys(obj)) |->
                           SelfWrites(obj, mbed_drives, depth)])
    IN IF childrenFirst THEN sub \o own ELSE own \o sub

\* r after the assignments ws, starting from r
RECURSIVE ApplyWrites(_, _)
ApplyWrites(r, ws) ==
    IF ws = <<>> THEN r
    ELSE LET w == Head(ws)
             r1 == [k \in (DOMAIN r) \cup {w.key} |-> IF k = w.key THEN w.info ELSE r[k]]
         IN ApplyWrites(r1, Tail(ws))

\* r = {} of get_mbed_volumes
EmptyMap == [k \in {} |-> None]

(***************************************************************************)
(* get_mbed_volumes.  ioreg and profiler are what plistlib.readPlist gave  *)
(* for the two queries: ListV of the parsed entries (for the profiler,     *)
(* res[0]['_items']), or NoneV when the parse raised and res stayed None.  *)
(* self.treeShow.show only logs the two filtered lists and is left out.    *)
(***************************************************************************)
\* FreshVolumes with r kept from the call before
StaleVolumes(prev) == prev

\* `r = {}`: the map starts empty whatever an earlier call produced
FreshVolumes(prev) == EmptyMap

\* serial_devs: None when filter_io_reg(None) raised into the bare except
SerialDevs(ioreg) ==
    IF ioreg.tag = "list" THEN ListV(filter_io_reg(ioreg.val)) ELSE NoneV

\* mbed_drives: None when the statement was not reached or get_drive_info raised
MbedDrives(ioreg, profiler) ==
    IF ioreg.tag = "list" /\ profiler.tag = "list"
    THEN ListV(filter_system_profiler(profiler.val)) ELSE NoneV

\* every assignment to r made by `for obj in serial_devs: set_mbed_devs(obj)`
VolumeWrites(ioreg, profiler, childrenFirst) ==
    LET serial_devs == SerialDevs(ioreg)
        mbed_drives == MbedDrives(ioreg, profiler)
    IN IF serial_devs.tag = "list"
       THEN Flatten([i \in 1..Len(serial_devs.val) |->
                        set_mbed_devs(serial_devs.val[i], mbed_drives, childrenFirst, 0)])
       ELSE <<>>

get_mbed_volumes(prev, ioreg, profiler, childrenFirst) ==
    ApplyWrites(FreshVolumes(prev), VolumeWrites(ioreg, profiler, childrenFirst))

(***************************************************************************)
(* get_mount_points.  diskutil is ListV of the AllDisksAndPartitions       *)
(* entries [DeviceIdentifier, MountPoint], or NoneV when the query or its  *)
(* parse raised; nothing in get_mount_points catches that.                 *)
(***************************************************************************)
RECURSIVE MountMap(_, _)
MountMap(r, disks) ==
    IF disks = <<>> THEN r
    ELSE LET disk == Head(disks)
             mount_point == IF disk.MountPoint # Absent THEN disk.MountPoint ELSE None
             r1 == [k \in (DOMAIN r) \cup {disk.DeviceIdentifier} |->
                       IF k = disk.DeviceIdentifier THEN mount_point ELSE r[k]]
         IN MountMap(r1, Tail(disks))

get_mount_points(diskutil) ==
    IF diskutil.tag = "list"
    THEN [raised |-> FALSE, r |-> MountMap(EmptyMap, diskutil.val)]
    ELSE [raised |-> TRUE, r |-> EmptyMap]

(***************************************************************************)
(* target_id, platform_name and the vendor table of the base class.        *)
(***************************************************************************)
manufacture_ids ==
    (<<"0", "2", "0", "0">> :> <<"KL25Z">>) @@ (<<"0", "2", "4", "0">> :> <<"K64F">>)

target_id(usb_info) == IF usb_info.serial # None THEN usb_info.serial ELSE None

\* None[:4] raises TypeError
PlatformNameRaises(tid) == tid = None

platform_name(tid) ==
    IF Slice(tid, 4) \in DOMAIN manufacture_ids
    THEN manufacture_ids[Slice(tid, 4)] ELSE None

\* Python truth value of a string or None
Truthy(s) == s # None /\ s # <<>>

(***************************************************************************)
(* list_mbeds.                                                             *)
(***************************************************************************)
\* every DiskId of the model, in the order the model lists a dict's keys
KeyOrder == <<None, <<"disk1">>, <<"disk2">>, <<"disk3">> >>

\* BuildRecord reading the serial number where the tty is meant
BuildRecordSerial(volumes, mounts, v) ==
    [mount_point |-> mounts[v],
     serial_port |-> volumes[v].serial,
     target_id |-> target_id(volumes[v]),
     platform_name |-> platform_name(target_id(volumes[v]))]

\* the record built by the list comprehension for key v
BuildRecord(volumes, mounts, v) ==
    [mount_point |-> mounts[v],
     serial_port |-> volumes[v].tty,
     target_id |-> target_id(volumes[v]),
     platform_name |-> platform_name(target_id(volumes[v]))]

\* `None in result[i]`: None among the keys of the dict
NoneInRecord(rec) == NoneKey \in DOMAIN rec

\* ResolveRecord without the recomputation of platform_name
ResolveRecordKeepName(rec, htm) ==
    IF NoneInRecord(rec) THEN rec
    ELSE IF Truthy(rec.mount_point)
    THEN LET htm_target_id == htm[rec.mount_point]
             r1 == IF Truthy(htm_target_id)
                   THEN ("target_id_usb_id" :> rec.target_id)
                        @@ [rec EXCEPT !.target_id = htm_target_id]
                   ELSE rec
         IN ("target_id_mbed_htm" :> htm_target_id) @@ r1
    ELSE rec

\* one pass of the loop body over result[i]; htm maps a mount point to what
\* get_mbed_htm_target_id returns for it
ResolveRecord(rec, htm) ==
    IF NoneInRecord(rec) THEN rec
    ELSE IF Truthy(rec.mount_point)
    THEN LET htm_target_id == htm[rec.mount_point]
             r1 == IF Truthy(htm_target_id)
                   THEN ("target_id_usb_id" :> rec.target_id)
                        @@ [rec EXCEPT !.target_id = htm_target_id,
                                       !.platform_name = platform_name(Slice(htm_target_id, 4))]
                   ELSE rec
         IN ("target_id_mbed_htm" :> htm_target_id) @@ r1
    ELSE rec

\* ERRORLEVEL_FLAG after the loop: reset to 0, then -1 if some record trips the test
ErrorLevel(old, result) ==
    IF \E i \in 1..Len(result) : NoneInRecord(result[i]) THEN -1 ELSE 0

list_mbeds(flag, prev, ioreg, profiler, diskutil, htm, childrenFirst) ==
    LET volumes == get_mbed_volumes(prev, ioreg, profiler, childrenFirst)
        mp == get_mount_points(diskutil)
        mounts == mp.r
        intersection == (DOMAIN volumes) \cap (DOMAIN mounts)
        keys == SelectSeq(KeyOrder, LAMBDA k : k \in intersection)
        built == [i \in 1..Len(keys) |-> BuildRecord(volumes, mounts, keys[i])]
    IN IF mp.raised \/ \E k \in intersection : PlatformNameRaises(target_id(volumes[k]))
       THEN [status |-> "raised", result |-> <<>>, keys |-> <<>>, flag |-> flag,
             volumes |-> volumes, mounts |-> mounts]
       ELSE [status |-> "returned",
             result |-> [i \in 1..Len(keys) |-> ResolveRecord(built[i], htm)],
             keys |-> keys,
             flag |-> ErrorLevel(flag, built),
             volumes |-> volumes, mounts |-> mounts]

(***************************************************************************)
(* State.  ioreg, profiler, diskutil, htm and childrenFirst are what the   *)
(* host gives the queries; plugged says whether ioreg finds any            *)
(* IOSerialBSDClient at all (with none it prints nothing and readPlist     *)
(* raises).  ERRORLEVEL_FLAG is the attribute of the object; volumes,      *)
(* mounts, result, keys and status are what the last call of list_mbeds    *)
(* computed; seen and repeated are history: the outcome of the first call  *)
(* made in each plug state, and whether the last two calls had the same    *)
(* inputs.  out and applied belong to the specifications of the helpers.   *)
(***************************************************************************)
VARIABLES ioreg, profiler, diskutil, htm, childrenFirst, plugged,
          ERRORLEVEL_FLAG, volumes, mounts, result, keys, status,
          seen, lastPlug, repeated, out, applied

inputs == <<ioreg, profiler, diskutil, htm, childrenFirst>>
object == <<ERRORLEVEL_FLAG, volumes, mounts, result, keys, status>>
history == <<seen, lastPlug, repeated>>
vars == <<inputs, plugged, object, history, out, applied>>

\* ---- values the inputs are drawn from ----
MaxHubs == 1

MbedName == <<"MBED", "CMSIS-DAP">>
HubName == <<"USB2.0", "Hub">>
S1 == <<"0", "2", "4", "0", "A">>
S2 == <<"9", "9", "9", "9">>
H1 == <<"0", "2", "0", "0", "B">>
T1 == <<"/dev/tty.usbmodem1">>
T2 == <<"/dev/tty.usbmodem2">>
Disk1 == <<"disk1">>
Disk2 == <<"disk2">>
PathA == <<"/Volumes/MBED">>
PathB == <<"/Volumes/MBED 1">>

\* a registry dict; the two vendor-name keys and the numeric ids are left out
\* of the dicts built here unless FullNode is used
FullNode(name, vendor, sessionID, bcdDevice, serial, tty, children) ==
    [name |-> name, vendor |-> vendor, vendorName |-> Absent,
     sessionID |-> sessionID, bcdDevice |-> bcdDevice,
     idVendor |-> IF serial # Absent THEN <<"0x0d28">> ELSE Absent,
     idProduct |-> IF serial # Absent THEN <<"0x0204">> ELSE Absent,
     serial |-> serial, tty |-> tty, children |-> children]

RegNode(name, sig, serial, tty, children) ==
    FullNode(name, Absent, sig, sig, serial, tty, children)

UsbNode(name, manufacturer, serial_num, bsd_name, items) ==
    [name |-> name, manufacturer |-> manufacturer, serial_num |-> serial_num,
     bsd_name |-> bsd_name, items |-> items]

Partition(id, mount_point) == [DeviceIdentifier |-> id, MountPoint |-> mount_point]

\* a device node nested in the composite node
Nested ==
    {RegNode(n, FALSE, s, t, AbsentV) :
        n \in {MbedName, HubName}, s \in {Absent, S2}, t \in {Absent, T2}}

CompositeKids ==
    {AbsentV} \cup {DictV(c) : c \in Nested}
              \cup {ListV(<<RegNode(HubName, FALSE, Absent, T2, AbsentV)>>)}

\* the node with sessionID and bcdDevice
Composite ==
    {RegNode(n, TRUE, s, t, k) :
        n \in {MbedName, HubName}, s \in {Absent, S1, S2}, t \in {Absent, T1},
        k \in CompositeKids}

\* c below k plain nodes, each the mapping child of the one above
RECURSIVE BelowHubs(_, _)
BelowHubs(c, k) ==
    IF k = 0 THEN c
    ELSE RegNode(HubName, FALSE, Absent, Absent, DictV(BelowHubs(c, k - 1)))

RootNode(children) == RegNode(<<"Root">>, FALSE, Absent, Absent, children)

\* a composite node without children
Bare == {c \in Composite : c.children = AbsentV}

RootTrees ==
    {RootNode(DictV(c)) : c \in Composite}
    \cup {RootNode(DictV(BelowHubs(c, k))) : c \in Bare, k \in 1..MaxHubs}
    \cup {RootNode(ListV(<<c>>)) : c \in Bare}

IoregInputs == {ListV(<<t>>) : t \in RootTrees}

E1 == UsbNode(<<"MBED">>, Absent, S1, Disk1, AbsentV)
E2 == UsbNode(<<"MBED">>, Absent, S2, Disk2, AbsentV)
Bus(items) == UsbNode(<<"USB30Bus">>, Absent, Absent, Absent, ListV(items))

ProfilerInputs == {NoneV} \cup {ListV(<<Bus(l)>>) : l \in {<<E1>>, <<E1, E2>>}}

DiskutilInputs ==
    {NoneV} \cup
    {ListV(a \o b) :
        a \in {<<>>, <<Partition(Disk1, PathA)>>, <<Partition(Disk1, Absent)>>},
        b \in {<<>>, <<Partition(Disk2, PathB)>>}}

HtmInputs ==
    {[p \in {PathA, PathB} |-> IF p \in S THEN H1 ELSE None] :
        S \in {{}, {PathA}, {PathA, PathB}}}

NoCall == [called |-> FALSE, status |-> "none", result |-> <<>>, flag |-> 0]

InitObject ==
    /\ ERRORLEVEL_FLAG = 0
    /\ volumes = EmptyMap
    /\ mounts = EmptyMap
    /\ result = <<>>
    /\ keys = <<>>
    /\ status = "none"
    /\ seen = [p \in BOOLEAN |-> NoCall]
    /\ lastPlug = FALSE
    /\ repeated = FALSE
    /\ out = <<>>
    /\ applied = FALSE

Init ==
    /\ ioreg \in IoregInputs
    /\ profiler \in ProfilerInputs
    /\ diskutil \in DiskutilInputs
    /\ htm \in HtmInputs
    /\ childrenFirst \in BOOLEAN
    /\ plugged \in BOOLEAN
    /\ InitObject

\* what readPlist gives for the ioreg query
IoregNow == IF plugged THEN ioreg ELSE NoneV

\* a call of list_mbeds
ListMbeds ==
    LET o == list_mbeds(ERRORLEVEL_FLAG, volumes, IoregNow, profiler, diskutil,
                        htm, childrenFirst)
        outcome == [called |-> TRUE, status |-> o.status, result |-> o.result,
                    flag |-> o.flag]
    IN /\ ERRORLEVEL_FLAG' = o.flag
       /\ volumes' = o.volumes
       /\ mounts' = o.mounts
       /\ result' = o.result
       /\ keys' = o.keys
       /\ status' = o.status
       /\ seen' = IF seen[plugged].called THEN seen
                  ELSE [seen EXCEPT ![plugged] = outcome]
       /\ repeated' = (status # "none" /\ lastPlug = plugged)
       /\ lastPlug' = plugged
       /\ UNCHANGED <<inputs, plugged, out, applied>>

\* the board is unplugged or plugged back between two calls
Replug ==
    /\ plugged' = ~plugged
    /\ UNCHANGED <<inputs, object, history, out, applied>>

Next == ListMbeds \/ Replug

Spec == Init /\ [][Next]_vars

(***************************************************************************)
(* Properties of list_mbeds, checked under Spec.                           *)
(***************************************************************************)
\* every dict of a registry value, at any depth, through mapping and sequence children
RECURSIVE AllNodes(_)
AllNodes(v) ==
    IF v.tag \in {"dict", "list"}
    THEN UNION {{v.val[i]} \cup AllNodes(v.val[i].children) : i \in 1..Len(v.val)}
    ELSE {}

\* the registry the last call read
IoregAtLastCall == IF lastPlug THEN ioreg ELSE NoneV

Matched(n) == MatchingKeys(n) # <<>>

BaseFields == {"mount_point", "serial_port", "target_id", "platform_name"}

\* the USB serial number a returned record was built from
UsbId(rec) ==
    IF "target_id_usb_id" \in DOMAIN rec THEN rec.target_id_usb_id ELSE rec.target_id

\* C1: list_mbeds returns exactly one record per DiskId that is a key of
\* both the correlated-device map and the mount table, none for any other
\* DiskId (the None key included); the record's mount_point is the mount
\* table's value for the DiskId and its serial_port the device's tty.
Theorem_C1 ==
    status = "returned" =>
        /\ Len(result) = Cardinality((DOMAIN volumes) \cap (DOMAIN mounts))
        /\ Len(keys) = Len(result)
        /\ Range(keys) = (DOMAIN volumes) \cap (DOMAIN mounts)
        /\ None \notin Range(keys)
        /\ \A i \in 1..Len(result) :
              /\ result[i].mount_point = mounts[keys[i]]
              /\ result[i].serial_port = volumes[keys[i]].tty

\* a call that returned one record while one device sat under the None key
\* and one partition had no device
Witness_C1 ==
    /\ status = "returned"
    /\ None \in DOMAIN volumes
    /\ Cardinality(DOMAIN volumes) = 2
    /\ Cardinality(DOMAIN mounts) = 2
    /\ Len(result) = 1

\* C2: a record with a mount point whose mbed.htm yields X has target_id X,
\* target_id_usb_id the USB serial, target_id_mbed_htm X and platform_name
\* the vendor-table entry of X[:4]; when mbed.htm yields nothing target_id
\* stays the USB serial, target_id_usb_id is not added and
\* target_id_mbed_htm is present and None.
Theorem_C2 ==
    status = "returned" =>
        \A i \in 1..Len(result) :
            LET rec == result[i]
                usb == volumes[keys[i]].serial
                mp == mounts[keys[i]]
                X == htm[mp]
            IN mp # None =>
                /\ X # None =>
                     /\ rec.target_id = X
                     /\ "target_id_usb_id" \in DOMAIN rec
                     /\ rec.target_id_usb_id = usb
                     /\ "target_id_mbed_htm" \in DOMAIN rec
                     /\ rec.target_id_mbed_htm = X
                     /\ rec.platform_name =
                          (IF SubSeq(X, 1, 4) \in DOMAIN manufacture_ids
                           THEN manufacture_ids[SubSeq(X, 1, 4)] ELSE None)
                /\ X = None =>
                     /\ rec.target_id = usb
                     /\ "target_id_usb_id" \notin DOMAIN rec
                     /\ "target_id_mbed_htm" \in DOMAIN rec
                     /\ rec.target_id_mbed_htm = None

\* one call returned a record resolved through mbed.htm and one left unresolved
Witness_C2 ==
    /\ status = "returned"
    /\ Len(result) = 2
    /\ \E i, j \in 1..Len(result) :
          /\ "target_id_usb_id" \in DOMAIN result[i]
          /\ result[i].target_id = H1
          /\ result[i].platform_name = <<"KL25Z">>
          /\ "target_id_mbed_htm" \in DOMAIN result[j]
          /\ result[j].target_id_mbed_htm = None

\* C3: after list_mbeds returns, ERRORLEVEL_FLAG is non-zero whenever a
\* returned record has a field whose value is None.
Claim_C3 ==
    (/\ status = "returned"
     /\ \E i \in 1..Len(result) : \E f \in BaseFields : result[i][f] = None)
    => ERRORLEVEL_FLAG # 0

\* C4: whichever of the three queries fails, list_mbeds returns normally.
Claim_C4 == status \in {"none", "returned"}

\* C5 as stated: a matched registry node without a USB serial number still
\* gives a record once a volume is mounted, with target_id and
\* platform_name None, and the flag is set.
Claim_C5 ==
    (/\ status = "returned"
     /\ lastPlug
     /\ SerialDevs(ioreg).tag = "list"
     /\ \E n \in Range(SerialDevs(ioreg).val) : Matched(n) /\ n.serial = Absent
     /\ \E k \in DOMAIN mounts : mounts[k] # None)
    => /\ \E i \in 1..Len(result) :
             result[i].target_id = None /\ result[i].platform_name = None
       /\ ERRORLEVEL_FLAG # 0

\* C5 amended: a matched registry node without a USB serial number gives no
\* map entry and no record: every entry of the correlated-device map and
\* every returned record carries the serial number of a matched registry
\* node that has one.
Theorem_C5 ==
    status = "returned" =>
        LET serials == {n.serial : n \in {m \in AllNodes(IoregAtLastCall) :
                                             Matched(m) /\ m.serial # Absent}}
        IN /\ \A k \in DOMAIN volumes : volumes[k].serial \in serials
           /\ \A i \in 1..Len(result) : UsbId(result[i]) \in serials

\* the composite node matches and has no serial, a volume is mounted, and no
\* record came back for it
Witness_C5 ==
    /\ status = "returned"
    /\ lastPlug
    /\ SerialDevs(ioreg).tag = "list"
    /\ \E n \in Range(SerialDevs(ioreg).val) :
          Matched(n) /\ n.serial = Absent /\ n.children = AbsentV
    /\ \E k \in DOMAIN mounts : mounts[k] # None
    /\ volumes = EmptyMap
    /\ result = <<>>

\* C6: a call of list_mbeds gives the records and the flag that the first
\* call made with the same raw inputs gave, whatever was called in between;
\* in particular two calls in a row with the same inputs agree.
Theorem_C6 ==
    status # "none" =>
        seen[lastPlug] = [called |-> TRUE, status |-> status, result |-> result,
                          flag |-> ERRORLEVEL_FLAG]

\* two calls in a row with the board plugged returned the same non-empty list
Witness_C6 ==
    /\ repeated
    /\ lastPlug
    /\ status = "returned"
    /\ Len(result) > 0
    /\ seen[FALSE].called

(***************************************************************************)
(* The helpers of get_mbed_volumes on their own: each specification draws  *)
(* the helper's argument in its initial state and applies the helper once. *)
(***************************************************************************)
MaxDepth == 2
MaxItems == 2

IdleObject ==
    /\ diskutil = NoneV
    /\ htm = [p \in {PathA, PathB} |-> None]
    /\ plugged = TRUE
    /\ InitObject

Idle == UNCHANGED <<inputs, plugged, object, history>>

\* ---- filter_io_reg ----
SigNode(sessionID, bcdDevice, children) ==
    FullNode(HubName, Absent, sessionID, bcdDevice, Absent, Absent, children)

Kids(nodes) == {DictV(c) : c \in nodes} \cup {ListV(<<c>>) : c \in nodes}

RECURSIVE IoSub(_)
IoSub(d) ==
    LET sigs == {<<FALSE, FALSE>>, <<TRUE, FALSE>>, <<TRUE, TRUE>>}
        leaves == {SigNode(sb[1], sb[2], AbsentV) : sb \in sigs}
    IN IF d = 0 THEN leaves
       ELSE leaves \cup {SigNode(sb[1], sb[2], k) : sb \in sigs, k \in Kids(IoSub(d - 1))}

IoTop ==
    {FullNode(n, Absent, FALSE, FALSE, Absent, Absent, k) :
        n \in {<<"Root">>, <<"IOUSBHostDevice">>},
        k \in {AbsentV} \cup Kids(IoSub(MaxDepth - 1))}

InitIoReg ==
    /\ ioreg \in {ListV(<<a>>) : a \in IoTop} \cup {ListV(<<a, b>>) : a, b \in IoTop}
    /\ profiler = NoneV
    /\ childrenFirst = FALSE
    /\ IdleObject

FilterIoReg ==
    /\ ~applied
    /\ out' = filter_io_reg(ioreg.val)
    /\ applied' = TRUE
    /\ Idle

SpecIoReg == InitIoReg /\ [][FilterIoReg]_vars

\* the children of the nodes of one generation, in order
NextGeneration(gen) == Flatten([i \in 1..Len(gen) |-> gen[i].children.val])

\* the first node, generation by generation, that carries both fields
RECURSIVE FirstSignature(_)
FirstSignature(gen) ==
    IF gen = <<>> THEN <<>>
    ELSE IF \E i \in 1..Len(gen) : gen[i].sessionID /\ gen[i].bcdDevice
    THEN <<gen[CHOOSE i \in 1..Len(gen) :
                  /\ gen[i].sessionID /\ gen[i].bcdDevice
                  /\ \A j \in 1..(i - 1) : ~(gen[j].sessionID /\ gen[j].bcdDevice)]>>
    ELSE FirstSignature(NextGeneration(gen))

\* C10: for every root-level tree named "Root" the filter collects the
\* first descendant carrying both sessionID and bcdDevice, and nothing for
\* the tree only if no descendant carries both, also when a child collection
\* is a sequence of nodes.
Claim_C10 ==
    applied =>
        out = Flatten([i \in 1..Len(ioreg.val) |->
                          IF ioreg.val[i].name = <<"Root">>
                          THEN FirstSignature(NextGeneration(<<ioreg.val[i]>>))
                          ELSE <<>>])

\* ---- set_mbed_devs and find_tty ----
TtyAt(d) == <<"/dev/tty.usbmodem", <<"a", "b", "c", "d", "e">>[d + 1]>>

RECURSIVE DevSub(_, _)
DevSub(d, depth) ==
    LET own == {<<n, s, t>> : n \in {MbedName, HubName}, s \in {Absent, S1, S2},
                              t \in {Absent, TtyAt(depth)}}
        kids == IF d = 0 THEN {AbsentV} ELSE {AbsentV} \cup Kids(DevSub(d - 1, depth + 1))
    IN {RegNode(o[1], FALSE, o[2], o[3], k) : o \in own, k \in kids}

DevTop ==
    {FullNode(n, v, TRUE, TRUE, s, t, k) :
        n \in {MbedName, HubName}, v \in {Absent, <<"MBED">>}, s \in {Absent, S1, S2},
        t \in {Absent, TtyAt(0)}, k \in {AbsentV} \cup Kids(DevSub(MaxDepth - 1, 1))}

InitDevs ==
    /\ ioreg \in {ListV(<<RootNode(DictV(c))>>) : c \in DevTop}
    /\ profiler = ListV(<<Bus(<<E1, E2>>)>>)
    /\ childrenFirst \in BOOLEAN
    /\ IdleObject

Correlate ==
    /\ ~applied
    /\ out' = [writes |-> VolumeWrites(ioreg, profiler, childrenFirst),
               r |-> get_mbed_volumes(EmptyMap, ioreg, profiler, childrenFirst)]
    /\ applied' = TRUE
    /\ Idle

SpecDevs == InitDevs /\ [][Correlate]_vars

\* the node d mapping children below n
RECURSIVE ChainNode(_, _)
ChainNode(n, d) == IF d = 0 THEN n ELSE ChainNode(n.children.val[1], d - 1)

\* the IODialinDevice of the first node, generation by generation, that has one
RECURSIVE NearestTty(_)
NearestTty(gen) ==
    IF gen = <<>> THEN None
    ELSE IF \E i \in 1..Len(gen) : gen[i].tty # Absent
    THEN gen[CHOOSE i \in 1..Len(gen) :
                /\ gen[i].tty # Absent
                /\ \A j \in 1..(i - 1) : gen[j].tty = Absent].tty
    ELSE NearestTty(NextGeneration(gen))

\* C7: in the walk of one registry subtree, once a matching node with a
\* serial number has produced a map entry no node nested in it produces
\* another: the entries of one branch come from one node.
Claim_C7 ==
    applied =>
        /\ \A i, j \in 1..Len(out.writes) : out.writes[i].depth = out.writes[j].depth
        /\ Cardinality(DOMAIN out.r) <= 1

\* C8: the tty stored for a matched device with a serial number is the
\* IODialinDevice of the nearest node reached downward from the device
\* node, itself first, through mapping or sequence children, and None only
\* if no such node has one.
Claim_C8 ==
    applied =>
        \A i \in 1..Len(out.writes) :
            out.writes[i].info.tty =
                NearestTty(<<ChainNode(SerialDevs(ioreg).val[1], out.writes[i].depth)>>)

\* ---- filter_system_profiler ----
UsbLeaves ==
    {UsbNode(n, m, Absent, b, AbsentV) :
        n \in {Absent, <<"MBED">>, <<"SEGGER">>}, m \in {Absent, <<"MSD">>},
        b \in {Absent, Disk1}}

RECURSIVE UsbSub(_)
UsbSub(d) ==
    IF d = 0 THEN UsbLeaves
    ELSE UsbLeaves \cup
         {[l EXCEPT !.items = ListV(<<c>>)] : l \in UsbLeaves, c \in UsbSub(d - 1)}

RECURSIVE UsbLists(_, _)
UsbLists(nodes, n) ==
    IF n = 0 THEN {<<>>}
    ELSE UsbLists(nodes, n - 1) \cup
         {Append(l, c) : l \in {x \in UsbLists(nodes, n - 1) : Len(x) = n - 1}, c \in nodes}

InitProfiler ==
    /\ ioreg = ListV(<<>>)
    /\ profiler \in {ListV(<<Bus(l)>>) : l \in UsbLists(UsbSub(MaxDepth - 1), MaxItems)}
    /\ childrenFirst = FALSE
    /\ IdleObject

FilterProfiler ==
    /\ ~applied
    /\ out' = filter_system_profiler(profiler.val)
    /\ applied' = TRUE
    /\ Idle

SpecProfiler == InitProfiler /\ [][FilterProfiler]_vars

\* every node below the _items lists of the given nodes
RECURSIVE UsbBelow(_)
UsbBelow(nodes) ==
    LET items == Flatten([i \in 1..Len(nodes) |-> nodes[i].items.val])
    IN IF items = <<>> THEN <<>> ELSE items \o UsbBelow(items)

Count(seq, x) == Cardinality({i \in 1..Len(seq) : seq[i] = x})

\* C9: the filter returns exactly the nodes below the root's _items lists
\* whose name (plus manufacturer) matches the board pattern and which have
\* a bsd_name; a sibling without a name is skipped without suppressing the
\* others.
Claim_C9 ==
    applied =>
        LET wanted == SelectSeq(UsbBelow(profiler.val),
                                LAMBDA i : /\ i.name # Absent
                                           /\ mbed_volume_name_match(SearchTerm(i))
                                           /\ i.bsd_name # Absent)
        IN \A x \in Range(wanted) \cup Range(out) : Count(out, x) = Count(wanted, x)
====
